---------------------------- MODULE Spec2Model ----------------------------
(***************************************************************************)
(* Verification model of slack-rag-server.                                 *)
(*                                                                         *)
(*  - the Go HTTP server (src/main.go): the /slack/events handler, the     *)
(*    handleSlashCommand function, the dispatch goroutines and the guards  *)
(*    of the message handlers (handlers package);                          *)
(*  - the Bolt middleware chain of src/utils.js: the staleness filter and  *)
(*    the processedEventIds deduplicator with its setTimeout eviction.     *)
(*                                                                         *)
(* Strings that the code inspects (message text, challenge) are sequences  *)
(* of one-character strings, so that HasPrefix, Contains and ToLower are   *)
(* computed as the Go standard library computes them.                      *)
(***************************************************************************)
EXTENDS Integers, Sequences, FiniteSets, TLC

(***************************************************************************)
(* Bounds of the model.                                                    *)
(***************************************************************************)
MaxReqs == 2

(***************************************************************************)
(* String helpers (Go package strings).                                    *)
(***************************************************************************)
HasPrefix(s, p) ==
    /\ Len(s) >= Len(p)
    /\ SubSeq(s, 1, Len(p)) = p

Contains(s, sub) ==
    \E i \in 1..(Len(s) + 1) :
        /\ i + Len(sub) - 1 <= Len(s)
        /\ SubSeq(s, i, i + Len(sub) - 1) = sub

LowerChar(c) ==
    CASE c = "H" -> "h"
      [] c = "E" -> "e"
      [] c = "Y" -> "y"
      [] c = "R" -> "r"
      [] c = "A" -> "a"
      [] c = "G" -> "g"
      [] c = "B" -> "b"
      [] c = "O" -> "o"
      [] c = "T" -> "t"
      [] OTHER -> c

ToLower(s) == [i \in 1..Len(s) |-> LowerChar(s[i])]

(***************************************************************************)
(* Literals of the source.                                                 *)
(***************************************************************************)
HeyRagbotLower == <<"h", "e", "y", " ", "r", "a", "g", "b", "o", "t">>
HeyRagbotTitle == <<"H", "e", "y", " ", "R", "a", "g", "b", "o", "t">>
mentionPattern == <<"<", "@", "[", "^", ">", "]", "+", ">">>
TracebackFlag == <<"-", "-", "t", "r", "a", "c", "e", "b", "a", "c", "k">>
CommandEq == <<"c", "o", "m", "m", "a", "n", "d", "=">>
FormContentType == "application/x-www-form-urlencoded"

(***************************************************************************)
(* Sample strings carried by requests.                                     *)
(***************************************************************************)
TextHeyLower == <<"h", "e", "y", " ", "r", "a", "g", "b", "o", "t", " ", "q">>
TextHeyUpper == <<"H", "E", "Y", " ", "R", "A", "G", "B", "O", "T", " ", "q">>
TextHeyTitle == <<"H", "e", "y", " ", "R", "a", "g", "b", "o", "t", " ", "q", " ">>
TextPlain == <<"q">>
TextMention == <<"<", "@", "U", "1", ">", " ", "q">>
TextMentionPattern == <<"<", "@", "[", "^", ">", "]", "+", ">", " ", "q">>
TextCommandEq == <<"q", " ", "c", "o", "m", "m", "a", "n", "d", "=", "1">>
ChallengeAbc == <<"a", "b", "c", "1", "2", "3">>
ChallengeCmd == <<"c", "o", "m", "m", "a", "n", "d", "=", "1">>

Texts == {TextHeyLower, TextHeyUpper, TextHeyTitle, TextPlain, TextCommandEq}
MentionTexts == {TextPlain, TextMention, TextMentionPattern}


(***************************************************************************)
(* Inbound data.  An event object (the "event" member of the envelope) and *)
(* a request body.  present = FALSE: the envelope has no event object;     *)
(* hasType = FALSE: the event has no string "type"; typed = FALSE: some    *)
(* member has a JSON type that the slackevents struct cannot take, so that *)
(* json.Unmarshal into the struct fails.                                   *)
(***************************************************************************)
ProcessStart == 2
EventTimes == {ProcessStart - 1, ProcessStart, ProcessStart + 1}
appStartTime == ProcessStart * 1000

NoEvent ==
    [present |-> FALSE, hasType |-> FALSE, type |-> "", channel_type |-> "",
     thread_ts |-> "", ts |-> 0, channel |-> "", text |-> <<>>, bot_id |-> "",
     subtype |-> "", typed |-> TRUE]

Event(type, channel_type, thread_ts, text, bot_id, subtype, typed, ts) ==
    [present |-> TRUE, hasType |-> TRUE, type |-> type,
     channel_type |-> channel_type, thread_ts |-> thread_ts, ts |-> ts,
     channel |-> "C1", text |-> text, bot_id |-> bot_id, subtype |-> subtype,
     typed |-> typed]

UntypedEvent == [Event("", "", "", TextPlain, "", "", TRUE, ProcessStart)
                     EXCEPT !.hasType = FALSE]

AppMentionEvents ==
    {Event("app_mention", "channel", th, tx, "", "", ty, ProcessStart) :
        th \in {"", "T1"}, tx \in Texts \cup MentionTexts, ty \in BOOLEAN}

MessageEvents ==
    {Event("message", e[1], e[2], e[3], e[4], e[5], e[6], ProcessStart) :
        e \in {"im", "channel"} \X {"", "T1"} \X Texts \X {"", "B1"}
              \X {"", "file_share", "message_changed"} \X BOOLEAN}

OtherEvents ==
    {Event("reaction_added", "channel", "", TextPlain, "", "", TRUE, ProcessStart),
     UntypedEvent}

Events == AppMentionEvents \cup MessageEvents \cup OtherEvents

(***************************************************************************)
(* Bodies.  kind: "empty" (zero bytes), "garbage" (bytes that are neither  *)
(* a JSON object nor a form), "form" (a urlencoded form; command = "" when *)
(* it has no command key), "badform" (command=%zz: a form that            *)
(* url.ParseQuery rejects), "json" (a JSON object).                        *)
(***************************************************************************)
Body(kind, command, text, response_url, typ, challengeIsString, challenge,
     event_id, ev) ==
    [kind |-> kind, command |-> command, text |-> text,
     response_url |-> response_url, typ |-> typ,
     challengeIsString |-> challengeIsString, challenge |-> challenge,
     event_id |-> event_id, ev |-> ev]

EmptyBody == Body("empty", "", <<>>, "", "", FALSE, <<>>, "", NoEvent)
GarbageBody == Body("garbage", "", <<>>, "", "", FALSE, <<>>, "", NoEvent)
BadFormBody == Body("badform", "", <<>>, "", "", FALSE, <<>>, "", NoEvent)
FormBody(command, text, response_url) ==
    Body("form", command, text, response_url, "", FALSE, <<>>, "", NoEvent)
ChallengeBody(isString, challenge) ==
    Body("json", "", <<>>, "", "url_verification", isString, challenge, "",
         NoEvent)
EventBody(event_id, ev) ==
    Body("json", "", <<>>, "", "event_callback", FALSE, <<>>, event_id, ev)

RegisteredCommands ==
    {"/ragbot-get-datasource", "/ragbot-sync-datasource", "/ragbot-help",
     "/ragbot-kb-status", "/ragbot-ds-config", "/ragbot-agent-status",
     "/ragbot-list-datasources", "/ragbot-job-status", "/ragbot-health-check"}

JobId == <<"j", "1">>
ResponseUrl == "https://hooks.slack.com/commands/1"
MalformedUrl == "%zz"

FormBodies ==
    {FormBody(c, <<>>, u) :
        c \in RegisteredCommands \cup {"/nonexistent", "/RAGBOT-HELP", ""},
        u \in {"", ResponseUrl, MalformedUrl}}
    \cup {FormBody("/ragbot-job-status", JobId, u) : u \in {"", ResponseUrl}}

ChallengeBodies ==
    {ChallengeBody(TRUE, ChallengeAbc), ChallengeBody(TRUE, ChallengeCmd),
     ChallengeBody(FALSE, <<>>)}

Bodies ==
    {EmptyBody, GarbageBody, BadFormBody} \cup FormBodies \cup ChallengeBodies
        \cup {EventBody("Ev1", NoEvent)}
        \cup {EventBody("Ev1", ev) : ev \in Events}

(***************************************************************************)
(* strings.Contains(bodyString, "command="): the raw bytes of a form hold  *)
(* "command=" when it has a command key; the raw bytes of a JSON object    *)
(* hold it when one of its string members does.                            *)
(***************************************************************************)
RawContainsCommandEq(b) ==
    CASE b.kind = "form" -> b.command # ""
      [] b.kind = "badform" -> TRUE
      [] b.kind = "json" ->
            \/ b.challengeIsString /\ Contains(b.challenge, CommandEq)
            \/ b.ev.present /\ Contains(b.ev.text, CommandEq)
      [] OTHER -> FALSE

(***************************************************************************)
(* Requests.  auth abstracts the X-Slack-Request-Timestamp and             *)
(* X-Slack-Signature headers: "valid" (fresh timestamp, signature equal to *)
(* the HMAC of the raw body), "mismatch" (fresh timestamp, well-formed     *)
(* signature that is not the HMAC of the raw body), "missing",             *)
(* "unparsable", "stale".  urlCommand is the command parameter of the URL  *)
(* query ("" when there is none).                                          *)
(***************************************************************************)
Endpoints == {"/slack/events", "/slack/commands"}
ContentTypes ==
    {"application/json", FormContentType,
     "application/x-www-form-urlencoded; charset=utf-8"}
Auths == {"valid", "mismatch", "missing", "unparsable", "stale"}
UrlCommands == {"", "/ragbot-help"}

Requests ==
    [endpoint : Endpoints, contentType : ContentTypes, auth : Auths,
     urlCommand : UrlCommands, body : Bodies]

NoReq ==
    [endpoint |-> "", contentType |-> "", auth |-> "", urlCommand |-> "",
     body |-> EmptyBody]

(***************************************************************************)
(* The signature verifier of slack-go as the handlers use it.              *)
(* NewSecretsVerifier fails when a header is missing, when the signature   *)
(* or the timestamp does not parse, and when the timestamp is stale.       *)
(* Ensure succeeds when the signature header is the HMAC of the bytes that *)
(* were written to the verifier; the signature of a "valid" request is the *)
(* HMAC of its raw body.                                                   *)
(***************************************************************************)
NewSecretsVerifierFails(q) == q.auth \in {"missing", "unparsable", "stale"}

EnsureOk(q, written) == q.auth = "valid" /\ written = q.body

(***************************************************************************)
(* http.Request.ParseForm and r.Form.Get("command") for a POST request:    *)
(* the body is parsed only when the media type of Content-Type (parameters *)
(* dropped) is the form type; body values precede those of the URL query.  *)
(***************************************************************************)
MediaTypeIsForm(contentType) ==
    contentType \in {FormContentType,
                     "application/x-www-form-urlencoded; charset=utf-8"}

ParseFormFails(q) == MediaTypeIsForm(q.contentType) /\ q.body.kind = "badform"

FormCommand(q) ==
    IF MediaTypeIsForm(q.contentType) /\ q.body.kind = "form"
          /\ q.body.command # ""
    THEN q.body.command
    ELSE q.urlCommand

(***************************************************************************)
(* What an HTTP handler has done when it returns or reaches its last       *)
(* statement.  status = 0: nothing written yet, the handler has started a  *)
(* goroutine (spawn) and WriteHeader(200) is its remaining statement.      *)
(* route: the branch taken.  jsonParsed: json.Unmarshal ran on the body.   *)
(* ensured: sv.Ensure() returned nil on the original body bytes.           *)
(***************************************************************************)
Outcome(status, route, jsonParsed, ensured, spawn, respBody, respType, command) ==
    [status |-> status, route |-> route, jsonParsed |-> jsonParsed,
     ensured |-> ensured, spawn |-> spawn, respBody |-> respBody,
     respType |-> respType, command |-> command]

Reply(status, route, jsonParsed) ==
    Outcome(status, route, jsonParsed, FALSE, "none", <<>>, "", "")

(***************************************************************************)
(* handleSlashCommand (src/main.go:230-331).                               *)
(***************************************************************************)
CommandSignatureChecked(q) == q.body.kind # "empty"

(* The verification step of handleSlashCommand (src/main.go:249-264) lets  *)
(* the request through.                                                    *)
CommandVerifyOk(q) ==
    /\ ~NewSecretsVerifierFails(q)
    /\ CommandSignatureChecked(q) => EnsureOk(q, q.body)

handleSlashCommand(q) ==
    IF NewSecretsVerifierFails(q)
    THEN Reply(400, "command", FALSE)
    ELSE IF ~CommandVerifyOk(q)
    THEN Reply(401, "command", FALSE)
    ELSE IF ParseFormFails(q)
    THEN Reply(400, "command", FALSE)
    ELSE IF FormCommand(q) = ""
    THEN Reply(400, "command", FALSE)
    ELSE Outcome(0, "command", FALSE,
                 CommandSignatureChecked(q) /\ EnsureOk(q, q.body),
                 "command", <<>>, "", FormCommand(q))

(***************************************************************************)
(* The /slack/events handler (src/main.go:60-207).                         *)
(***************************************************************************)
(* Mutant: only the Content-Type is inspected, not the raw body. *)
IsFormRequestByHeaderOnly(q) == q.contentType = FormContentType

IsFormRequest(q) ==
    \/ q.contentType = FormContentType
    \/ RawContainsCommandEq(q.body)

JsonObject(b) == b.kind = "json"

(* Mutant: the handshake is recognised by the wrong type tag. *)
IsUrlVerificationWrongTag(b) ==
    /\ JsonObject(b)
    /\ b.typ = "challenge"
    /\ b.challengeIsString

IsUrlVerification(b) ==
    /\ JsonObject(b)
    /\ b.typ = "url_verification"
    /\ b.challengeIsString

(* Mutant: the result of sv.Ensure() is ignored. *)
EventSignatureOkIgnored(q) == TRUE

EventSignatureOk(q) == EnsureOk(q, q.body)

(* The verification step of the event path (src/main.go:116-128) lets the  *)
(* request through.                                                        *)
EventVerifyOk(q) == ~NewSecretsVerifierFails(q) /\ EventSignatureOk(q)

(* Mutant: the body that io.ReadAll consumed is not put back. *)
RestoredBodyDrained(b) == EmptyBody

(* src/main.go:85  r.Body = io.NopCloser(bytes.NewReader(body)) *)
RestoredBody(b) == b

(* The request that the event handler hands to handleSlashCommand: the     *)
(* signature headers are those of the request as it was sent.              *)
HandedOff(q) == [q EXCEPT !.body = RestoredBody(q.body)]

EventsHandler(q) ==
    IF IsFormRequest(q)
    THEN handleSlashCommand(HandedOff(q))
    ELSE IF q.body.kind # "empty" /\ ~JsonObject(q.body)
    THEN Reply(400, "badjson", TRUE)
    ELSE IF IsUrlVerification(q.body)
    THEN Outcome(200, "challenge", TRUE, FALSE, "none", q.body.challenge,
                 "text/plain", "")
    ELSE IF NewSecretsVerifierFails(q)
    THEN Reply(400, "event", q.body.kind # "empty")
    ELSE IF ~EventSignatureOk(q)
    THEN Reply(401, "event", q.body.kind # "empty")
    ELSE IF ~JsonObject(q.body)
    THEN Outcome(500, "event", TRUE, EnsureOk(q, q.body), "none", <<>>, "", "")
    ELSE Outcome(0, "event", TRUE, EnsureOk(q, q.body), "event", <<>>, "", "")

(***************************************************************************)
(* The HTTP mux: /slack/events and /slack/commands (src/main.go:60,210).   *)
(***************************************************************************)
Serve(q) ==
    IF q.endpoint = "/slack/events"
    THEN EventsHandler(q)
    ELSE handleSlashCommand(q)

(***************************************************************************)
(* The event goroutine (src/main.go:139-203): the handler that the switch  *)
(* on the event type calls, "none" when it calls none, and the last line   *)
(* it logs.                                                                *)
(***************************************************************************)
(* Mutant: the channel type test of the threaded branch is inverted. *)
MessageTargetInverted(ev) ==
    IF ev.thread_ts # ""
    THEN IF ev.channel_type = "im"
         THEN "HandleThreadMessage"
         ELSE "HandleDirectThreadMessage"
    ELSE IF ev.channel_type = "im"
         THEN "HandleDirectMessage"
         ELSE "none"

MessageTarget(ev) ==
    IF ev.thread_ts # ""
    THEN IF ev.channel_type = "im"
         THEN "HandleDirectThreadMessage"
         ELSE "HandleThreadMessage"
    ELSE IF ev.channel_type = "im"
         THEN "HandleDirectMessage"
         ELSE "none"

(* Mutant: the switch has no app_mention case. *)
EventTargetNoMention(b) ==
    IF ~b.ev.present \/ ~b.ev.hasType
    THEN "none"
    ELSE CASE b.ev.type = "message" ->
                IF b.ev.typed THEN MessageTarget(b.ev) ELSE "none"
           [] OTHER -> "none"

EventTarget(b) ==
    IF ~b.ev.present \/ ~b.ev.hasType
    THEN "none"
    ELSE CASE b.ev.type = "app_mention" ->
                IF b.ev.typed THEN "HandleAppMention" ELSE "none"
           [] b.ev.type = "message" ->
                IF b.ev.typed THEN MessageTarget(b.ev) ELSE "none"
           [] OTHER -> "none"

EventLog(b) ==
    IF ~b.ev.present THEN "No event object found in request"
    ELSE IF ~b.ev.hasType THEN "No event type found in event object"
    ELSE CASE b.ev.type = "app_mention" ->
                IF b.ev.typed THEN "Handling app mention"
                ELSE "Error parsing app_mention event"
           [] b.ev.type = "message" ->
                IF b.ev.typed THEN "Received message event"
                ELSE "Error parsing message event"
           [] OTHER -> "Unhandled event type"

(***************************************************************************)
(* The guards of the message handlers (handlers package): TRUE when the    *)
(* handler goes on to processMessage.                                      *)
(***************************************************************************)
HandleAppMentionActs(ev) == TRUE

HandleDirectMessageActs(ev) ==
    ~(ev.bot_id # "" \/ (ev.subtype # "" /\ ev.subtype # "file_share"))

HandleThreadMessageActs(ev) ==
    ~(\/ ev.thread_ts = ""
      \/ ev.channel_type = "im"
      \/ ev.bot_id # ""
      \/ ev.subtype # ""
      \/ ~HasPrefix(ToLower(ev.text), HeyRagbotLower))

(***************************************************************************)
(* HandleDirectThreadMessage is called by main.go:192; its body is not in  *)
(* the source tree.  It may or may not go on to processMessage.            *)
(***************************************************************************)
HandleDirectThreadMessageActs(ev) == BOOLEAN

HandlerActs(h, ev) ==
    CASE h = "HandleAppMention" -> {HandleAppMentionActs(ev)}
      [] h = "HandleDirectMessage" -> {HandleDirectMessageActs(ev)}
      [] h = "HandleThreadMessage" -> {HandleThreadMessageActs(ev)}
      [] h = "HandleDirectThreadMessage" -> HandleDirectThreadMessageActs(ev)
      [] OTHER -> {FALSE}

(***************************************************************************)
(* The command goroutine (src/main.go:303-326) and the command handlers'   *)
(* use of the Bedrock service.                                             *)
(***************************************************************************)
(* Mutant: the command name is matched without regard to case. *)
CommandTargetFolded(command) ==
    CASE command = "/ragbot-get-datasource" -> "HandleGetDataSource"
      [] command = "/ragbot-sync-datasource" -> "HandleSyncDataSource"
      [] command \in {"/ragbot-help", "/RAGBOT-HELP"} -> "HandleHelp"
      [] command = "/ragbot-kb-status" -> "HandleKbStatus"
      [] command = "/ragbot-ds-config" -> "HandleDsConfig"
      [] command = "/ragbot-agent-status" -> "HandleAgentStatus"
      [] command = "/ragbot-list-datasources" -> "HandleListDataSources"
      [] command = "/ragbot-job-status" -> "HandleJobStatus"
      [] command = "/ragbot-health-check" -> "HandleHealthCheck"
      [] OTHER -> "none"

CommandTarget(command) ==
    CASE command = "/ragbot-get-datasource" -> "HandleGetDataSource"
      [] command = "/ragbot-sync-datasource" -> "HandleSyncDataSource"
      [] command = "/ragbot-help" -> "HandleHelp"
      [] command = "/ragbot-kb-status" -> "HandleKbStatus"
      [] command = "/ragbot-ds-config" -> "HandleDsConfig"
      [] command = "/ragbot-agent-status" -> "HandleAgentStatus"
      [] command = "/ragbot-list-datasources" -> "HandleListDataSources"
      [] command = "/ragbot-job-status" -> "HandleJobStatus"
      [] command = "/ragbot-health-check" -> "HandleHealthCheck"
      [] OTHER -> "none"

TrimLeft(s) ==
    SubSeq(s,
           1 + (CHOOSE n \in 0..Len(s) :
                    /\ \A i \in 1..n : s[i] = " "
                    /\ (n = Len(s) \/ s[n + 1] # " ")),
           Len(s))

TrimRight(s) ==
    SubSeq(s,
           1,
           CHOOSE n \in 0..Len(s) :
               /\ \A i \in (n + 1)..Len(s) : s[i] = " "
               /\ (n = 0 \/ s[n] # " "))

TrimSpace(s) == TrimRight(TrimLeft(s))

CommandText(q) ==
    IF MediaTypeIsForm(q.contentType) /\ q.body.kind = "form"
    THEN q.body.text
    ELSE <<>>

CommandCallsService(h, text) ==
    CASE h = "none" -> FALSE
      [] h = "HandleHelp" -> FALSE
      [] h = "HandleJobStatus" -> TrimSpace(text) # <<>>
      [] OTHER -> TRUE

EventHandlers ==
    {"HandleAppMention", "HandleDirectMessage", "HandleThreadMessage",
     "HandleDirectThreadMessage"}

CommandHandlers == {CommandTarget(c) : c \in RegisteredCommands}

(* main.go:288  ResponseURL: r.FormValue("response_url") *)
CommandResponseURL(q) ==
    IF MediaTypeIsForm(q.contentType) /\ q.body.kind = "form"
    THEN q.body.response_url
    ELSE ""

(***************************************************************************)
(* respondToCommand (message.js:533-589): the calls it makes.  With a      *)
(* response URL it posts to that URL, unless http.NewRequest rejects the   *)
(* URL (message.js:555-559), and then it returns; without one it posts to  *)
(* the channel of the command.                                             *)
(***************************************************************************)
NewRequestFails(url) == url = MalformedUrl

respondToCommand(url) ==
    IF url # ""
    THEN IF NewRequestFails(url) THEN <<>> ELSE <<"POST response_url">>
    ELSE <<"PostMessage channel">>

(***************************************************************************)
(* The text and the thread that the message handlers hand to               *)
(* processMessage (part_003:30-96).                                        *)
(***************************************************************************)
TrimPrefix(s, p) ==
    IF HasPrefix(s, p) THEN SubSeq(s, Len(p) + 1, Len(s)) ELSE s

(* strings.SplitN(s, sep, 2)[1]: what follows the first sep in s. *)
AfterFirst(s, sep) ==
    IF \E i \in 1..Len(s) : s[i] = sep
    THEN SubSeq(s,
                1 + (CHOOSE i \in 1..Len(s) :
                         s[i] = sep /\ \A j \in 1..(i - 1) : s[j] # sep),
                Len(s))
    ELSE <<>>

(* part_003:34-43 *)
TextAfterMention(text) ==
    IF Contains(text, mentionPattern) /\ Contains(text, <<">">>)
    THEN TrimSpace(AfterFirst(text, ">"))
    ELSE text

(* part_003:87-92 *)
TextAfterHeyRagbot(text) ==
    TrimSpace(TrimPrefix(TrimPrefix(text, HeyRagbotTitle), HeyRagbotLower))

(* The ts of an event as the string that the envelope carries. *)
TimeStamp(ev) == ToString(ev.ts)

(* Mutant: the thread is always the timestamp of the event. *)
ThreadOwnTs(ev) == TimeStamp(ev)

(* part_003:46-49 and 65-68 *)
Thread(ev) ==
    IF ev.thread_ts = "" THEN TimeStamp(ev) ELSE ev.thread_ts

(* The length of the leading run of non-space characters of s. *)
WordLen(s) ==
    CHOOSE n \in 0..Len(s) :
        /\ \A i \in 1..n : s[i] # " "
        /\ (n = Len(s) \/ s[n + 1] = " ")

(* strings.Fields: the maximal runs of non-space characters. *)
Fields(s) ==
    LET starts == {i \in 1..Len(s) :
                       s[i] # " " /\ (i = 1 \/ s[i - 1] = " ")}
        nth(k) == CHOOSE i \in starts :
                      Cardinality({j \in starts : j < i}) = k - 1
    IN  [k \in 1..Cardinality(starts) |->
            SubSeq(s, nth(k),
                   nth(k) + WordLen(SubSeq(s, nth(k), Len(s))) - 1)]

(* strings.Join(words, " ") *)
JoinSpace(words) ==
    LET joined[k \in 0..Len(words)] ==
            IF k = 0 THEN <<>>
            ELSE IF k = 1 THEN words[1]
            ELSE joined[k - 1] \o <<" ">> \o words[k]
    IN  joined[Len(words)]

(* logging.go:41-47: the text that goes on to the agent. *)
HandleTracebackFlag(text) ==
    IF Fields(text) # <<>> /\ Fields(text)[1] = TracebackFlag
    THEN JoinSpace(Tail(Fields(text)))
    ELSE text

(* The text each handler hands to processMessage: HandleAppMention cuts    *)
(* the mention (part_003:34-43), HandleThreadMessage the prefix            *)
(* (part_003:87-92), and processMessage applies HandleTracebackFlag        *)
(* (part_003:104).                                                         *)
AgentText(h, text) ==
    CASE h = "HandleAppMention" -> HandleTracebackFlag(TextAfterMention(text))
      [] h = "HandleThreadMessage" ->
            HandleTracebackFlag(TextAfterHeyRagbot(text))
      [] OTHER -> HandleTracebackFlag(text)

(* AgentText of every handler on every text an event carries, computed     *)
(* once.                                                                   *)
AgentTexts ==
    {<<h, t, AgentText(h, t)>> : h \in EventHandlers, t \in Texts \cup MentionTexts}

InputText(h, text) ==
    (CHOOSE e \in AgentTexts : e[1] = h /\ e[2] = text)[3]

NoInput == [text |-> <<>>, sessionID |-> "", timestamp |-> ""]

(* What the handler passes on: inputText and sessionID of                  *)
(* InvokeBedrockAgent (part_003:127), timestamp of AddReaction and         *)
(* SendSlackMessage.                                                       *)
HandleAppMentionInput(ev) ==
    [text |-> InputText("HandleAppMention", ev.text),
     sessionID |-> Thread(ev), timestamp |-> TimeStamp(ev)]

HandleDirectMessageInput(ev) ==
    [text |-> InputText("HandleDirectMessage", ev.text),
     sessionID |-> Thread(ev), timestamp |-> TimeStamp(ev)]

HandleThreadMessageInput(ev) ==
    [text |-> InputText("HandleThreadMessage", ev.text),
     sessionID |-> ev.thread_ts, timestamp |-> TimeStamp(ev)]

(* HandleDirectThreadMessage (body not in the source tree): the message of *)
(* a thread in a direct channel, passed on as the direct-message handler   *)
(* passes it.                                                              *)
HandleDirectThreadMessageInput(ev) ==
    [text |-> InputText("HandleDirectThreadMessage", ev.text),
     sessionID |-> Thread(ev), timestamp |-> TimeStamp(ev)]

HandlerInput(h, ev) ==
    CASE h = "HandleAppMention" -> HandleAppMentionInput(ev)
      [] h = "HandleDirectMessage" -> HandleDirectMessageInput(ev)
      [] h = "HandleThreadMessage" -> HandleThreadMessageInput(ev)
      [] h = "HandleDirectThreadMessage" -> HandleDirectThreadMessageInput(ev)
      [] OTHER -> NoInput

(***************************************************************************)
(* CheckBedrockAgentHealth (bedrock.go:458-524) and InvokeBedrockAgent     *)
(* (bedrock.go:95-202).  agent is what GetAgentStatus gave: the status of  *)
(* the agent or "ErrorResponse"; kb is what GetKnowledgeBaseStatus gave,   *)
(* or "unconfigured" when no knowledge base id is set; rpc is what the     *)
(* InvokeAgent call and its stream give when the call is made.             *)
(***************************************************************************)
AgentStatuses == {"READY", "PREPARED", "NOT_PREPARED", "ErrorResponse"}
KbStatuses == {"unconfigured", "ACTIVE", "CREATING", "ErrorResponse"}
RpcResults == {"error", "streamError", "answer"}

NoHealth == [Healthy |-> FALSE, Issues |-> {"not checked"}]

HealthIssues(agent, kb) ==
    (IF agent = "ErrorResponse" THEN {"Agent"}
     ELSE IF agent # "PREPARED" /\ agent # "READY" THEN {"Agent"}
     ELSE {})
    \cup
    (IF kb = "unconfigured" THEN {}
     ELSE IF kb = "ErrorResponse" THEN {"Knowledge Base"}
     ELSE IF kb # "ACTIVE" THEN {"Knowledge Base"}
     ELSE {})

CheckBedrockAgentHealth(agent, kb) ==
    [Healthy |-> HealthIssues(agent, kb) = {},
     Issues |-> HealthIssues(agent, kb)]

(* Mutant: the agent is invoked whatever the health check reported. *)
InvokeBedrockAgentUnchecked(agent, kb, rpc) ==
    [calls |-> <<"InvokeAgent">>,
     result |-> IF rpc = "answer" THEN "answer" ELSE "ErrorResponse"]

InvokeBedrockAgent(agent, kb, rpc) ==
    IF ~CheckBedrockAgentHealth(agent, kb).Healthy
    THEN [calls |-> <<>>, result |-> "ErrorResponse"]
    ELSE [calls |-> <<"InvokeAgent">>,
          result |-> IF rpc = "answer" THEN "answer" ELSE "ErrorResponse"]

(***************************************************************************)
(* What a call of the Bedrock service gives back when it returns.          *)
(* InvokeBedrockAgent (bedrock.go:95-202) returns an ErrorResponse value   *)
(* or an answer, always with a nil error.  GetDataSource                   *)
(* (bedrock.go:267-312) returns an ErrorResponse, the NO_JOBS_FOUND value  *)
(* or a DataSourceInfo; it dereferences the optional Description of the    *)
(* job summary (bedrock.go:304), which panics when the field is absent.    *)
(* The other service calls return an ErrorResponse or an answer.           *)
(***************************************************************************)
InvokeBedrockAgentRuns ==
    {[health |-> CheckBedrockAgentHealth(a, k),
      calls |-> InvokeBedrockAgent(a, k, o).calls,
      result |-> InvokeBedrockAgent(a, k, o).result] :
        a \in AgentStatuses, k \in KbStatuses, o \in RpcResults}

InvokeBedrockAgentResults == {inv.result : inv \in InvokeBedrockAgentRuns}

GetDataSourceResults ==
    {"ErrorResponse", "NO_JOBS_FOUND", "DataSourceInfo", "panic"}

ServiceResults(h) ==
    CASE h \in EventHandlers -> InvokeBedrockAgentResults
      [] h = "HandleGetDataSource" -> GetDataSourceResults
      [] OTHER -> {"ErrorResponse", "answer"}

ResultIsFailure(res) == res \in {"err", "ErrorResponse"}

(***************************************************************************)
(* sendAgentRequest after the call (part_003:127-159): the reaction it     *)
(* adds and the message it posts in reply to the triggering message.       *)
(***************************************************************************)
SendAgentRequestReaction(res) ==
    IF ResultIsFailure(res) THEN "x" ELSE "white_check_mark"

(* Mutant: the answer is posted whatever the result of the call. *)
SendAgentRequestPostAlwaysAnswer(res) == "answer"

SendAgentRequestPost(res) ==
    IF ResultIsFailure(res) THEN "error" ELSE "answer"

(* Mutant: the message is posted before the reaction is added. *)
SendAgentRequestCallsPostFirst(res) ==
    <<"SendSlackMessage", "AddReaction " \o SendAgentRequestReaction(res)>>

(* part_003:129-159: the calls after InvokeBedrockAgent, in order. *)
SendAgentRequestCalls(res) ==
    <<"AddReaction " \o SendAgentRequestReaction(res), "SendSlackMessage">>

(***************************************************************************)
(* The Bolt middleware chain (src/utils.js).  A payload is the envelope    *)
(* that the middleware reads: event_id ("" when absent), the event         *)
(* (hasEvent), its channel and its ts in seconds (hasTs = FALSE: no ts).   *)
(***************************************************************************)
DedupWindow == 30000
TickStep == 15000
MaxElapsed == 90000
MaxDeliveries == 3

Payload(event_id, hasEvent, type, hasTs, ts) ==
    [event_id |-> event_id, hasEvent |-> hasEvent, type |-> type,
     channel |-> IF hasEvent THEN "C1" ELSE "", hasTs |-> hasTs, ts |-> ts]

BoltPayloads ==
    {Payload(i, TRUE, t, TRUE, s) :
        i \in {"", "Ev1"}, t \in {"app_mention", "message"}, s \in EventTimes}
    \cup {Payload("", TRUE, "message", FALSE, 0), Payload("", FALSE, "", FALSE, 0)}

NoPayload == Payload("", FALSE, "", FALSE, 0)

NoDelivery == [payload |-> NoPayload, verdict |-> "none", first |-> FALSE, at |-> 0]

NoRun == [payload |-> NoPayload, n |-> 0, at |-> 0, state |-> "none"]

(* utils.js:7  payload.event?.ts ? parseFloat(payload.event.ts) * 1000 : Date.now() *)
BoltEventTime(p, clock) ==
    IF p.hasEvent /\ p.hasTs THEN p.ts * 1000 ELSE clock

(* utils.js:9 *)
IsStale(p, clock) == BoltEventTime(p, clock) < appStartTime

(* utils.js:46-47  payload.event_id || `${channel}-${ts}` || null; the     *)
(* identifier is the sequence of the parts of the string, <<>> for null    *)
(* and -1 for the ts that prints as "undefined".                           *)
NullId == <<>>

BoltEventId(p) ==
    IF p.event_id # ""
    THEN <<p.event_id>>
    ELSE IF p.hasEvent
         THEN <<p.channel, "-", IF p.hasTs THEN p.ts ELSE -1>>
         ELSE NullId

(* The platform event that a payload delivers: its event id when it has    *)
(* one, else the event itself.                                             *)
PlatformEvent(p) ==
    IF p.event_id # "" THEN Payload(p.event_id, FALSE, "", FALSE, 0) ELSE p

(***************************************************************************)
(* MonitorIngestionJob (bedrock.go:527-657).  Times are seconds since the  *)
(* deadline was computed (bedrock.go:551); the updated-at timestamps of    *)
(* the knowledge base are small integers.  A status call takes time, and   *)
(* the deadline is read only at the head of the polling loop.              *)
(***************************************************************************)
MaxWaitMinutes == 2
PollSleep == 30
CallDurations == {0, 45}
KbTimestamps == {1, 2}
TerminalStatuses == {"COMPLETE", "FAILED", "STOPPED"}
JobStatuses == TerminalStatuses \cup {"IN_PROGRESS"}

NoMonitor ==
    [pc |-> "idle", maxWaitMinutes |-> 0, clock |-> 0, initialKB |-> 0,
     jobComplete |-> FALSE, jobStatus |-> "", pollStart |-> 0,
     observedAt |-> 0, finalKB |-> 0, agentStatus |-> "", failed |-> FALSE,
     ret |-> "none", Success |-> FALSE]

(* bedrock.go:551  time.Now().Add(maxWaitMinutes * time.Minute) *)
MonitorDeadline(maxWaitMinutes) == maxWaitMinutes * 60

(* Mutant: Success does not look at the knowledge-base timestamps. *)
MonitorSuccessIgnoresKb(jobStatus, kbUpdated, agentReady) ==
    jobStatus = "COMPLETE" /\ agentReady

(* bedrock.go:645 *)
MonitorSuccess(jobStatus, kbUpdated, agentReady) ==
    jobStatus = "COMPLETE" /\ kbUpdated /\ agentReady

(***************************************************************************)
(* State.  One slot per request in flight.                                 *)
(*   req    the request of the slot (NoReq when idle)                      *)
(*   pc     the HTTP handler: "idle", "spawned" (goroutine started,        *)
(*          WriteHeader(200) not yet executed), "done"                     *)
(*   resp   what the HTTP handler did (an Outcome)                         *)
(*   gpc    the goroutine: "none", "ready" (started by the go statement),  *)
(*          "agent" (inside its call to the Bedrock service), "done"       *)
(*   handler  the handler function the goroutine called ("none")           *)
(*   acted  the message handler passed its guard (processMessage ran)      *)
(*   logged the last line logged by the goroutine                          *)
(*   agentFinished  the Bedrock call of the goroutine has returned         *)
(*   outcome  what the goroutine's service call gave back ("none" before)  *)
(*   reactions  the reactions the handler added to the triggering message  *)
(*   posted  the message the handler posted: "none", "answer", "error"     *)
(*   crashed  a goroutine panicked: the process is gone                    *)
(*   calls  the calls that the handler of the goroutine made to Slack and  *)
(*          to the agent runtime, in order                                 *)
(*   agentInput  what the message handler handed to processMessage         *)
(*   health  the report of the health check that InvokeBedrockAgent ran    *)
(*   arrived  the time at which the request arrived                        *)
(*   now    the clock (milliseconds)                                       *)
(* The Bolt middleware chain of src/utils.js:                              *)
(*   processedEventIds  the deduplication set                              *)
(*   timers  the pending setTimeout callbacks: [id, due]                   *)
(*   boltSeen  the platform events delivered so far                        *)
(*   boltLast  the last delivery and what the chain did with it            *)
(*   boltCount  the number of deliveries so far                            *)
(*   boltRun  the latest delivery that the deduplicator admitted under an  *)
(*          identifier, and how far the rest of the chain (next(), the     *)
(*          handler) has got with it                                       *)
(* A call of BedrockService.MonitorIngestionJob:                           *)
(*   mon    its position, its local variables, the time since it computed  *)
(*          its deadline and what it returned                              *)
(***************************************************************************)
VARIABLES req, pc, resp, gpc, handler, acted, logged, agentFinished,
          outcome, reactions, posted, crashed, calls, agentInput, health,
          arrived, now,
          processedEventIds, timers, boltSeen, boltLast, boltCount, boltRun,
          mon

httpVars == <<req, pc, resp, arrived>>
goVars ==
    <<gpc, handler, acted, logged, agentFinished, outcome, reactions, posted,
      crashed, calls, agentInput, health>>
boltVars ==
    <<processedEventIds, timers, boltSeen, boltLast, boltCount, boltRun>>
vars == <<req, pc, resp, gpc, handler, acted, logged, agentFinished,
          outcome, reactions, posted, crashed, calls, agentInput, health,
          arrived, now,
          processedEventIds, timers, boltSeen, boltLast, boltCount, boltRun,
          mon>>

Reqs == 1..MaxReqs

NoResp == Reply(0, "none", FALSE)

Init ==
    /\ req = [r \in Reqs |-> NoReq]
    /\ pc = [r \in Reqs |-> "idle"]
    /\ resp = [r \in Reqs |-> NoResp]
    /\ gpc = [r \in Reqs |-> "none"]
    /\ handler = [r \in Reqs |-> "none"]
    /\ acted = [r \in Reqs |-> FALSE]
    /\ logged = [r \in Reqs |-> ""]
    /\ agentFinished = [r \in Reqs |-> FALSE]
    /\ outcome = [r \in Reqs |-> "none"]
    /\ reactions = [r \in Reqs |-> {}]
    /\ posted = [r \in Reqs |-> "none"]
    /\ crashed = FALSE
    /\ calls = [r \in Reqs |-> <<>>]
    /\ agentInput = [r \in Reqs |-> NoInput]
    /\ health = [r \in Reqs |-> NoHealth]
    /\ arrived = [r \in Reqs |-> 0]
    /\ now = appStartTime
    /\ processedEventIds = {}
    /\ timers = {}
    /\ boltSeen = {}
    /\ boltLast = NoDelivery
    /\ boltCount = 0
    /\ boltRun = NoRun
    /\ mon = NoMonitor

(***************************************************************************)
(* The HTTP handler runs from the arrival of the request to its return or, *)
(* when it starts a goroutine, to the go statement.                        *)
(***************************************************************************)
Accept(r, q) ==
    /\ ~crashed
    /\ pc[r] = "idle"
    /\ req' = [req EXCEPT ![r] = q]
    /\ resp' = [resp EXCEPT ![r] = Serve(q)]
    /\ pc' = [pc EXCEPT ![r] =
                 IF Serve(q).spawn = "none" THEN "done" ELSE "spawned"]
    /\ gpc' = [gpc EXCEPT ![r] =
                  IF Serve(q).spawn = "none" THEN "none" ELSE "ready"]
    /\ arrived' = [arrived EXCEPT ![r] = now]
    /\ UNCHANGED <<handler, acted, logged, agentFinished, outcome, reactions,
                   posted, crashed, calls, agentInput, health, now>>
    /\ UNCHANGED boltVars
    /\ UNCHANGED mon

Receive(r) ==
    /\ \A o \in Reqs : pc[o] = "idle"
    /\ \E q \in Requests : Accept(r, q)

(***************************************************************************)
(* w.WriteHeader(http.StatusOK), the statement after the go statement      *)
(* (src/main.go:206 and 330).                                              *)
(***************************************************************************)
CanAck(r) == ~crashed /\ pc[r] = "spawned"

Ack(r) ==
    /\ CanAck(r)
    /\ resp' = [resp EXCEPT ![r].status = 200]
    /\ pc' = [pc EXCEPT ![r] = "done"]
    /\ UNCHANGED <<req, arrived, now>>
    /\ UNCHANGED goVars
    /\ UNCHANGED boltVars
    /\ UNCHANGED mon

(***************************************************************************)
(* The event goroutine up to the handler's call of InvokeBedrockAgent (or  *)
(* to its return when no handler runs or the handler's guard returns).     *)
(***************************************************************************)
RunEventGoroutine(r) ==
    /\ ~crashed
    /\ gpc[r] = "ready"
    /\ resp[r].spawn = "event"
    /\ LET h == EventTarget(req[r].body)
       IN /\ handler' = [handler EXCEPT ![r] = h]
          /\ logged' = [logged EXCEPT ![r] = EventLog(req[r].body)]
          /\ \E a \in HandlerActs(h, req[r].body.ev) :
                /\ acted' = [acted EXCEPT ![r] = a]
                /\ reactions' = [reactions EXCEPT ![r] =
                                     IF a THEN {"thinking_face"} ELSE {}]
                /\ calls' = [calls EXCEPT ![r] =
                                 IF a THEN <<"AddReaction thinking_face">>
                                 ELSE <<>>]
                /\ agentInput' = [agentInput EXCEPT ![r] =
                                      IF a THEN HandlerInput(h, req[r].body.ev)
                                      ELSE NoInput]
                /\ gpc' = [gpc EXCEPT ![r] = IF a THEN "agent" ELSE "done"]
    /\ UNCHANGED <<agentFinished, outcome, posted, crashed, health, now>>
    /\ UNCHANGED httpVars
    /\ UNCHANGED boltVars
    /\ UNCHANGED mon

(***************************************************************************)
(* The command goroutine up to the handler's call of the Bedrock service   *)
(* (or to its return).                                                     *)
(***************************************************************************)
RunCommandGoroutine(r) ==
    /\ ~crashed
    /\ gpc[r] = "ready"
    /\ resp[r].spawn = "command"
    /\ LET h == CommandTarget(resp[r].command)
       IN /\ handler' = [handler EXCEPT ![r] = h]
          /\ logged' = [logged EXCEPT ![r] =
                           IF h = "none" THEN "Unknown command"
                           ELSE "Processing command"]
          /\ gpc' = [gpc EXCEPT ![r] =
                        IF CommandCallsService(h, CommandText(req[r]))
                        THEN "agent" ELSE "done"]
          /\ posted' = [posted EXCEPT ![r] =
                           IF h # "none"
                              /\ ~CommandCallsService(h, CommandText(req[r]))
                           THEN "answer" ELSE "none"]
          /\ calls' = [calls EXCEPT ![r] =
                          IF h # "none"
                             /\ ~CommandCallsService(h, CommandText(req[r]))
                          THEN respondToCommand(CommandResponseURL(req[r]))
                          ELSE <<>>]
    /\ UNCHANGED <<acted, agentFinished, outcome, reactions, crashed,
                   agentInput, health, now>>
    /\ UNCHANGED httpVars
    /\ UNCHANGED boltVars
    /\ UNCHANGED mon

(***************************************************************************)
(* The call to the Bedrock service returns and the handler finishes: a     *)
(* message handler adds its reaction and posts (sendAgentRequest), a       *)
(* command handler posts through respondToCommand.                         *)
(***************************************************************************)
AgentReturn(r) ==
    /\ ~crashed
    /\ gpc[r] = "agent"
    /\ IF handler[r] \in EventHandlers
       THEN \E inv \in InvokeBedrockAgentRuns :
              /\ health' = [health EXCEPT ![r] = inv.health]
              /\ outcome' = [outcome EXCEPT ![r] = inv.result]
              /\ reactions' = [reactions EXCEPT ![r] =
                     @ \cup {SendAgentRequestReaction(inv.result)}]
              /\ posted' = [posted EXCEPT ![r] =
                     SendAgentRequestPost(inv.result)]
              /\ calls' = [calls EXCEPT ![r] =
                     @ \o inv.calls \o SendAgentRequestCalls(inv.result)]
       ELSE \E res \in ServiceResults(handler[r]) \ {"panic"} :
              /\ outcome' = [outcome EXCEPT ![r] = res]
              /\ posted' = [posted EXCEPT ![r] = SendAgentRequestPost(res)]
              /\ calls' = [calls EXCEPT ![r] =
                     @ \o respondToCommand(CommandResponseURL(req[r]))]
              /\ UNCHANGED <<reactions, health>>
    /\ gpc' = [gpc EXCEPT ![r] = "done"]
    /\ agentFinished' = [agentFinished EXCEPT ![r] = TRUE]
    /\ UNCHANGED <<handler, acted, logged, crashed, agentInput, now>>
    /\ UNCHANGED httpVars
    /\ UNCHANGED boltVars
    /\ UNCHANGED mon

(***************************************************************************)
(* The service call panics inside the goroutine.  The goroutines of        *)
(* main.go:139 and main.go:303 have no recover, so the Go runtime ends the *)
(* process: no statement of any goroutine runs after it.                   *)
(***************************************************************************)
Panic(r) ==
    /\ ~crashed
    /\ gpc[r] = "agent"
    /\ "panic" \in ServiceResults(handler[r])
    /\ outcome' = [outcome EXCEPT ![r] = "panic"]
    /\ crashed' = TRUE
    /\ UNCHANGED <<gpc, handler, acted, logged, agentFinished, reactions,
                   posted, calls, agentInput, health, now>>
    /\ UNCHANGED httpVars
    /\ UNCHANGED boltVars
    /\ UNCHANGED mon

(***************************************************************************)
(* The request is over: handler returned, goroutine (if any) ended.        *)
(***************************************************************************)
Release(r) ==
    /\ ~crashed
    /\ pc[r] = "done"
    /\ gpc[r] \in {"none", "done"}
    /\ req' = [req EXCEPT ![r] = NoReq]
    /\ pc' = [pc EXCEPT ![r] = "idle"]
    /\ resp' = [resp EXCEPT ![r] = NoResp]
    /\ gpc' = [gpc EXCEPT ![r] = "none"]
    /\ handler' = [handler EXCEPT ![r] = "none"]
    /\ acted' = [acted EXCEPT ![r] = FALSE]
    /\ logged' = [logged EXCEPT ![r] = ""]
    /\ agentFinished' = [agentFinished EXCEPT ![r] = FALSE]
    /\ outcome' = [outcome EXCEPT ![r] = "none"]
    /\ reactions' = [reactions EXCEPT ![r] = {}]
    /\ posted' = [posted EXCEPT ![r] = "none"]
    /\ calls' = [calls EXCEPT ![r] = <<>>]
    /\ agentInput' = [agentInput EXCEPT ![r] = NoInput]
    /\ health' = [health EXCEPT ![r] = NoHealth]
    /\ arrived' = [arrived EXCEPT ![r] = 0]
    /\ UNCHANGED <<crashed, now>>
    /\ UNCHANGED boltVars
    /\ UNCHANGED mon

(***************************************************************************)
(* Spec: the Go server, one request at a time over the whole request       *)
(* space (requests share no state in the Go server).                       *)
(***************************************************************************)
Next ==
    \/ \E r \in Reqs : Receive(r)
    \/ \E r \in Reqs : Ack(r)
    \/ \E r \in Reqs : RunEventGoroutine(r)
    \/ \E r \in Reqs : RunCommandGoroutine(r)
    \/ \E r \in Reqs : AgentReturn(r)
    \/ \E r \in Reqs : Panic(r)
    \/ \E r \in Reqs : Release(r)

Spec == Init /\ [][Next]_vars

(***************************************************************************)
(* SpecLive: the Go server with the scheduling the Go runtime gives: a     *)
(* runnable goroutine runs, so the request goroutine reaches its           *)
(* WriteHeader and a started goroutine reaches its handler's service call. *)
(* Nothing is assumed of the Bedrock service: its call need not return.    *)
(***************************************************************************)
Scheduling ==
    \A r \in Reqs :
        /\ WF_vars(Ack(r))
        /\ WF_vars(RunEventGoroutine(r))
        /\ WF_vars(RunCommandGoroutine(r))

SpecLive == Init /\ [][Next]_vars /\ Scheduling

(***************************************************************************)
(* Time passes, by one step of the clock.  A setTimeout callback whose     *)
(* delay has elapsed runs before the clock moves on by another step.       *)
(***************************************************************************)
Tick ==
    /\ now + TickStep <= appStartTime + MaxElapsed
    /\ \A t \in timers : t.due > now
    /\ now' = now + TickStep
    /\ UNCHANGED httpVars
    /\ UNCHANGED goVars
    /\ UNCHANGED boltVars
    /\ UNCHANGED mon

(***************************************************************************)
(* SpecDeliver: the Go server under concurrent deliveries of correctly     *)
(* signed event envelopes to /slack/events.                                *)
(***************************************************************************)
DeliveredEvents ==
    {EventBody(i, Event("app_mention", "channel", "", TextPlain, "", "", TRUE, s)) :
        i \in {"Ev1", "Ev2"}, s \in EventTimes}

Deliveries ==
    [endpoint : {"/slack/events"}, contentType : {"application/json"},
     auth : {"valid"}, urlCommand : {""}, body : DeliveredEvents]

Deliver(r) ==
    /\ \A o \in Reqs : o < r => pc[o] # "idle"
    /\ \E q \in Deliveries : Accept(r, q)

NextDeliver ==
    \/ \E r \in Reqs : Deliver(r)
    \/ \E r \in Reqs : Ack(r)
    \/ \E r \in Reqs : RunEventGoroutine(r)
    \/ \E r \in Reqs : AgentReturn(r)
    \/ Tick

SpecDeliver == Init /\ [][NextDeliver]_vars

(***************************************************************************)
(* SpecSession: the Go server under concurrent deliveries of correctly     *)
(* signed messages and mentions, in and out of a thread, to                *)
(* /slack/events.                                                          *)
(***************************************************************************)
SessionTimes == {ProcessStart, ProcessStart + 1}

SessionEvents ==
    {Event("app_mention", "channel", th, TextMention, "", "", TRUE, s) :
        th \in {"", "T1"}, s \in SessionTimes}
    \cup {Event("message", "im", "", TextPlain, "", "", TRUE, s) :
             s \in SessionTimes}
    \cup {Event("message", "channel", "T1", TextHeyLower, "", "", TRUE, s) :
             s \in SessionTimes}

SessionDeliveries ==
    [endpoint : {"/slack/events"}, contentType : {"application/json"},
     auth : {"valid"}, urlCommand : {""},
     body : {EventBody("Ev1", ev) : ev \in SessionEvents}]

DeliverMessage(r) ==
    /\ \A o \in Reqs : o < r => pc[o] # "idle"
    /\ \E q \in SessionDeliveries : Accept(r, q)

NextSession ==
    \/ \E r \in Reqs : DeliverMessage(r)
    \/ \E r \in Reqs : Ack(r)
    \/ \E r \in Reqs : RunEventGoroutine(r)
    \/ \E r \in Reqs : AgentReturn(r)

SpecSession == Init /\ [][NextSession]_vars

(***************************************************************************)
(* SpecMonitor: one call of MonitorIngestionJob.                           *)
(***************************************************************************)
MonitorError(m) == [m EXCEPT !.pc = "returned", !.ret = "ErrorResponse"]

(* bedrock.go:528-551: the initial GetKnowledgeBaseStatus; ok = FALSE when *)
(* it gives an ErrorResponse.                                              *)
MonitorStart(maxWaitMinutes, ok, kb) ==
    /\ mon.pc = "idle"
    /\ mon' = IF ~ok
              THEN MonitorError([mon EXCEPT !.maxWaitMinutes = maxWaitMinutes,
                                            !.failed = TRUE])
              ELSE [mon EXCEPT !.pc = "loop",
                               !.maxWaitMinutes = maxWaitMinutes,
                               !.initialKB = kb]
    /\ UNCHANGED httpVars
    /\ UNCHANGED goVars
    /\ UNCHANGED boltVars
    /\ UNCHANGED now

(* bedrock.go:554-578: one turn of the loop: the loop test, the call of    *)
(* GetIngestionJobStatus, which takes d seconds and gives s, and the sleep *)
(* when the status is not terminal.                                        *)
MonitorPoll(s, d) ==
    /\ mon.pc = "loop"
    /\ mon.clock < MonitorDeadline(mon.maxWaitMinutes)
    /\ ~mon.jobComplete
    /\ mon' = IF s = "ErrorResponse"
              THEN MonitorError([mon EXCEPT !.clock = @ + d, !.failed = TRUE])
              ELSE IF s \in TerminalStatuses
              THEN [mon EXCEPT !.pc = "final", !.jobComplete = TRUE,
                               !.jobStatus = s, !.pollStart = mon.clock,
                               !.observedAt = mon.clock + d,
                               !.clock = @ + d]
              ELSE [mon EXCEPT !.jobStatus = s, !.clock = @ + d + PollSleep]
    /\ UNCHANGED httpVars
    /\ UNCHANGED goVars
    /\ UNCHANGED boltVars
    /\ UNCHANGED now

(* bedrock.go:554 and 580-584: the loop test fails on the deadline. *)
MonitorTimeout ==
    /\ mon.pc = "loop"
    /\ ~(mon.clock < MonitorDeadline(mon.maxWaitMinutes))
    /\ mon' = MonitorError(mon)
    /\ UNCHANGED httpVars
    /\ UNCHANGED goVars
    /\ UNCHANGED boltVars
    /\ UNCHANGED now

(* bedrock.go:586-656: the final GetKnowledgeBaseStatus (ok = FALSE: an    *)
(* ErrorResponse), GetAgentStatus and the result.                          *)
MonitorFinish(ok, kb, agent) ==
    /\ mon.pc = "final"
    /\ mon' = IF ~ok
              THEN MonitorError([mon EXCEPT !.failed = TRUE])
              ELSE IF agent = "ErrorResponse"
              THEN MonitorError([mon EXCEPT !.finalKB = kb, !.failed = TRUE])
              ELSE [mon EXCEPT
                       !.pc = "returned", !.ret = "result",
                       !.finalKB = kb, !.agentStatus = agent,
                       !.Success =
                           MonitorSuccess(mon.jobStatus, kb > mon.initialKB,
                                          agent = "READY" \/ agent = "PREPARED")]
    /\ UNCHANGED httpVars
    /\ UNCHANGED goVars
    /\ UNCHANGED boltVars
    /\ UNCHANGED now

NextMonitor ==
    \/ \E m \in 0..MaxWaitMinutes, ok \in BOOLEAN, kb \in KbTimestamps :
          MonitorStart(m, ok, kb)
    \/ \E s \in JobStatuses \cup {"ErrorResponse"}, d \in CallDurations :
          MonitorPoll(s, d)
    \/ MonitorTimeout
    \/ \E ok \in BOOLEAN, kb \in KbTimestamps, agent \in AgentStatuses :
          MonitorFinish(ok, kb, agent)

SpecMonitor == Init /\ [][NextMonitor]_vars

(***************************************************************************)
(* SpecBolt: the middleware chain of src/utils.js.  The staleness          *)
(* middleware (utils.js:4-15) runs first, then the deduplication           *)
(* middleware (utils.js:44-65); no await separates has() from add(), so    *)
(* one delivery passes the chain in one step up to next().                 *)
(***************************************************************************)
BoltVerdict(p, clock, set) ==
    IF IsStale(p, clock) THEN "stale"
    ELSE IF BoltEventId(p) # NullId /\ BoltEventId(p) \in set THEN "duplicate"
    ELSE "next"

(* Mutant: a duplicate restarts the expiry timer of its identifier. *)
BoltDeliverRestarts(p) ==
    /\ boltCount < MaxDeliveries
    /\ now + DedupWindow + TickStep <= appStartTime + MaxElapsed
    /\ boltCount' = boltCount + 1
    /\ boltLast' = [payload |-> p,
                    verdict |-> BoltVerdict(p, now, processedEventIds),
                    first |-> PlatformEvent(p) \notin boltSeen,
                    at |-> now]
    /\ boltSeen' = boltSeen \cup {PlatformEvent(p)}
    /\ IF BoltVerdict(p, now, processedEventIds) = "next"
          /\ BoltEventId(p) # NullId
       THEN /\ processedEventIds' = processedEventIds \cup {BoltEventId(p)}
            /\ timers' = timers \cup
                   {[id |-> BoltEventId(p), due |-> now + DedupWindow]}
            /\ boltRun' = [payload |-> p, n |-> boltCount + 1, at |-> now,
                           state |-> "running"]
       ELSE IF BoltVerdict(p, now, processedEventIds) = "duplicate"
       THEN /\ timers' = {t \in timers : t.id # BoltEventId(p)} \cup
                   {[id |-> BoltEventId(p), due |-> now + DedupWindow]}
            /\ UNCHANGED <<processedEventIds, boltRun>>
       ELSE UNCHANGED <<processedEventIds, timers, boltRun>>
    /\ UNCHANGED now
    /\ UNCHANGED httpVars
    /\ UNCHANGED goVars
    /\ UNCHANGED mon

BoltDeliver(p) ==
    /\ boltCount < MaxDeliveries
    /\ now + DedupWindow + TickStep <= appStartTime + MaxElapsed
    /\ boltCount' = boltCount + 1
    /\ boltLast' = [payload |-> p,
                    verdict |-> BoltVerdict(p, now, processedEventIds),
                    first |-> PlatformEvent(p) \notin boltSeen,
                    at |-> now]
    /\ boltSeen' = boltSeen \cup {PlatformEvent(p)}
    /\ IF BoltVerdict(p, now, processedEventIds) = "next"
          /\ BoltEventId(p) # NullId
       THEN /\ processedEventIds' = processedEventIds \cup {BoltEventId(p)}
            /\ timers' = timers \cup
                   {[id |-> BoltEventId(p), due |-> now + DedupWindow]}
            /\ boltRun' = [payload |-> p, n |-> boltCount + 1, at |-> now,
                           state |-> "running"]
       ELSE UNCHANGED <<processedEventIds, timers, boltRun>>
    /\ UNCHANGED now
    /\ UNCHANGED httpVars
    /\ UNCHANGED goVars
    /\ UNCHANGED mon

(* Mutant: a failed handler run takes its identifier out of the set. *)
BoltHandlerReturnForgets(o) ==
    /\ boltRun.state = "running"
    /\ boltRun' = [boltRun EXCEPT !.state = o]
    /\ processedEventIds' =
           IF o = "failed"
           THEN processedEventIds \ {BoltEventId(boltRun.payload)}
           ELSE processedEventIds
    /\ UNCHANGED <<timers, boltSeen, boltLast, boltCount, now>>
    /\ UNCHANGED httpVars
    /\ UNCHANGED goVars
    /\ UNCHANGED mon

(* utils.js:64: await next() settles: the handler returned ("done") or     *)
(* threw ("failed").  The middleware has no try/catch around next() and    *)
(* nothing after it: the set and the timer stay as they are.               *)
BoltHandlerReturn(o) ==
    /\ boltRun.state = "running"
    /\ boltRun' = [boltRun EXCEPT !.state = o]
    /\ UNCHANGED <<processedEventIds, timers, boltSeen, boltLast, boltCount,
                   now>>
    /\ UNCHANGED httpVars
    /\ UNCHANGED goVars
    /\ UNCHANGED mon

(* Mutant: the callback runs and deletes nothing. *)
BoltTimerFireKeeps(t) ==
    /\ t \in timers
    /\ now >= t.due
    /\ timers' = timers \ {t}
    /\ UNCHANGED <<processedEventIds, boltSeen, boltLast, boltCount, boltRun,
                   now>>
    /\ UNCHANGED httpVars
    /\ UNCHANGED goVars
    /\ UNCHANGED mon

(* utils.js:59-61: the setTimeout callback, at or after its due time.      *)
BoltTimerFire(t) ==
    /\ t \in timers
    /\ now >= t.due
    /\ processedEventIds' = processedEventIds \ {t.id}
    /\ timers' = timers \ {t}
    /\ UNCHANGED <<boltSeen, boltLast, boltCount, boltRun, now>>
    /\ UNCHANGED httpVars
    /\ UNCHANGED goVars
    /\ UNCHANGED mon

NextBolt ==
    \/ \E p \in BoltPayloads : BoltDeliver(p)
    \/ \E t \in timers : BoltTimerFire(t)
    \/ \E o \in {"done", "failed"} : BoltHandlerReturn(o)
    \/ Tick

SpecBolt == Init /\ [][NextBolt]_vars

(***************************************************************************)
(* SpecBoltLive: the middleware chain in a running Node process: the clock *)
(* advances and the event loop runs a callback that is due.                *)
(***************************************************************************)
EventLoop ==
    /\ WF_vars(Tick)
    /\ WF_vars(\E t \in timers : BoltTimerFire(t))

SpecBoltLive == Init /\ [][NextBolt]_vars /\ EventLoop

(***************************************************************************)
(* Properties of the Go server (Spec).                                     *)
(***************************************************************************)
OnEvents(r) == req[r].endpoint = "/slack/events"
Handshake(r) ==
    /\ req[r].body.kind = "json"
    /\ req[r].body.typ = "url_verification"
    /\ req[r].body.challengeIsString
Answered(r) == pc[r] = "done"
BadHeaders(q) == q.auth \in {"missing", "unparsable", "stale"}
NoDispatch(r) == resp[r].spawn = "none" /\ gpc[r] = "none" /\ handler[r] = "none"

C1_WitnessRejected ==
    \E r \in Reqs :
        /\ OnEvents(r) /\ Answered(r)
        /\ resp[r].route = "event"
        /\ req[r].auth = "mismatch"
        /\ resp[r].status = 401

(* C2: a command handler is dispatched only for a request on whose         *)
(* original body bytes sv.Ensure() has succeeded, on both paths into       *)
(* handleSlashCommand and also when the body is empty and the command      *)
(* comes from the URL query.                                               *)
C2_CommandVerified ==
    \A r \in Reqs : resp[r].spawn = "command" => resp[r].ensured

C2_Forged ==
    \E r \in Reqs :
        /\ handler[r] \in CommandHandlers
        /\ req[r].auth = "mismatch"
        /\ resp[r].status = 200

HandshakeAnswer(r) ==
    /\ Answered(r)
    /\ resp[r].status = 200
    /\ resp[r].respType = "text/plain"
    /\ resp[r].respBody = req[r].body.challenge
    /\ ~resp[r].ensured
    /\ NoDispatch(r)

(* C3, as stated: every url_verification body with a string challenge sent *)
(* to the event endpoint is answered 200, text/plain, with the challenge   *)
(* as body, whatever its signature headers, and nothing is dispatched.     *)
C3_AsStated ==
    \A r \in Reqs :
        (OnEvents(r) /\ Handshake(r)) => HandshakeAnswer(r)

(* C3, amended: the same, for a handshake that the form check does not     *)
(* take first, that is, whose Content-Type is not exactly                  *)
(* application/x-www-form-urlencoded and whose raw body does not contain   *)
(* "command=".                                                             *)
C3_Handshake ==
    \A r \in Reqs :
        (/\ OnEvents(r)
         /\ Handshake(r)
         /\ req[r].contentType # FormContentType
         /\ ~Contains(req[r].body.challenge, CommandEq)) => HandshakeAnswer(r)

C3_Witness ==
    \E r \in Reqs :
        /\ OnEvents(r)
        /\ Handshake(r)
        /\ req[r].auth = "missing"
        /\ HandshakeAnswer(r)
        /\ resp[r].respBody = ChallengeAbc

(* C4, as stated: every request to the event endpoint whose Content-Type   *)
(* is form-urlencoded or whose raw body contains "command=" is handed to   *)
(* handleSlashCommand, before any JSON parsing, and is never rejected as   *)
(* invalid JSON.                                                           *)
C4_AsStated ==
    \A r \in Reqs :
        (/\ OnEvents(r)
         /\ \/ MediaTypeIsForm(req[r].contentType)
            \/ RawContainsCommandEq(req[r].body)) =>
            /\ resp[r].route = "command"
            /\ ~resp[r].jsonParsed

(* C4, amended: the same, for a request whose Content-Type header is       *)
(* exactly application/x-www-form-urlencoded (no parameters) or whose raw  *)
(* body contains "command=".                                               *)
C4_ExactFormFirst ==
    \A r \in Reqs :
        (/\ OnEvents(r)
         /\ \/ req[r].contentType = FormContentType
            \/ RawContainsCommandEq(req[r].body)) =>
            /\ resp[r].route = "command"
            /\ ~resp[r].jsonParsed
            /\ resp[r].command = handleSlashCommand(req[r]).command

C4_Witness ==
    \E r \in Reqs :
        /\ OnEvents(r)
        /\ req[r].contentType = "application/json"
        /\ req[r].body.kind = "form"
        /\ RawContainsCommandEq(req[r].body)
        /\ resp[r].route = "command"
        /\ Answered(r)

C9_Table(type, threaded, direct) ==
    CASE type = "app_mention" -> "HandleAppMention"
      [] type = "message" /\ threaded /\ direct -> "HandleDirectThreadMessage"
      [] type = "message" /\ threaded /\ ~direct -> "HandleThreadMessage"
      [] type = "message" /\ ~threaded /\ direct -> "HandleDirectMessage"
      [] OTHER -> "none"

Switched(r) == resp[r].spawn = "event" /\ gpc[r] \in {"agent", "done"}

(* C9: the goroutine calls at most one handler, the one that the table of  *)
(* (event type, thread present, channel type) names; the thread handler    *)
(* acts only on a text with the bot-name prefix; another message calls no  *)
(* handler; another type is logged as unhandled and calls no handler.      *)
C9_Routing ==
    \A r \in Reqs :
        LET ev == req[r].body.ev
        IN /\ ~Switched(r) => handler[r] \notin EventHandlers
           /\ (Switched(r) /\ ev.present /\ ev.hasType /\ ev.typed) =>
                /\ handler[r] =
                     C9_Table(ev.type, ev.thread_ts # "", ev.channel_type = "im")
                /\ (handler[r] = "HandleThreadMessage" /\ acted[r]) =>
                     HasPrefix(ToLower(ev.text), HeyRagbotLower)
                /\ handler[r] = "none" => ~acted[r] /\ gpc[r] = "done"
                /\ ev.type \notin {"app_mention", "message"} =>
                     logged[r] = "Unhandled event type"
           /\ (Switched(r) /\ ~(ev.present /\ ev.hasType /\ ev.typed)) =>
                handler[r] = "none" /\ ~acted[r]

C9_Witness ==
    \E r \in Reqs :
        /\ Switched(r)
        /\ handler[r] = "HandleThreadMessage"
        /\ acted[r]
        /\ req[r].body.ev.text = TextHeyUpper

C9_WitnessUnhandled ==
    \E r \in Reqs :
        /\ Switched(r)
        /\ req[r].body.ev.type = "reaction_added"
        /\ logged[r] = "Unhandled event type"

(* C10: in every interleaving, the request has written its 200 response    *)
(* before the handler's call to the Agent Client finishes.                 *)
C10_AckBeforeAgentReturns ==
    \A r \in Reqs : agentFinished[r] => resp[r].status = 200

C10_Late ==
    \E r \in Reqs :
        /\ agentFinished[r]
        /\ pc[r] = "spawned"
        /\ handler[r] = "HandleAppMention"

(* C11: every request for which a handler goroutine was started gets its   *)
(* 200 response, whatever the handler does afterwards (block forever in    *)
(* its service call, succeed, fail), and no such request is answered with  *)
(* another status.                                                         *)
C11_AckEventually ==
    \A r \in Reqs :
        /\ (pc[r] = "spawned") ~> (pc[r] = "done" /\ resp[r].status = 200)
        /\ []((Answered(r) /\ resp[r].spawn # "none") => resp[r].status = 200)

C11_Killed ==
    \E r \in Reqs :
        /\ crashed
        /\ pc[r] = "spawned"
        /\ resp[r].ensured
        /\ handler[r] = "HandleGetDataSource"

C12_Registry ==
    {<<"/ragbot-get-datasource", "HandleGetDataSource">>,
     <<"/ragbot-sync-datasource", "HandleSyncDataSource">>,
     <<"/ragbot-help", "HandleHelp">>,
     <<"/ragbot-kb-status", "HandleKbStatus">>,
     <<"/ragbot-ds-config", "HandleDsConfig">>,
     <<"/ragbot-agent-status", "HandleAgentStatus">>,
     <<"/ragbot-list-datasources", "HandleListDataSources">>,
     <<"/ragbot-job-status", "HandleJobStatus">>,
     <<"/ragbot-health-check", "HandleHealthCheck">>}

CommandSwitched(r) == resp[r].spawn = "command" /\ gpc[r] \in {"agent", "done"}

(* C12: the command goroutine starts the handler that the registry of nine *)
(* names binds to exactly the command string received, and only that one;  *)
(* for any other string (another name, another spelling of a registered    *)
(* name) it starts no handler, calls no service and posts nothing, and the *)
(* request is answered 200.                                                *)
C12_ExactRegistry ==
    \A r \in Reqs :
        /\ ~CommandSwitched(r) => handler[r] \notin CommandHandlers
        /\ CommandSwitched(r) =>
              /\ \A e \in C12_Registry :
                    resp[r].command = e[1] => handler[r] = e[2]
              /\ (\A e \in C12_Registry : resp[r].command # e[1]) =>
                    /\ handler[r] = "none"
                    /\ gpc[r] = "done"
                    /\ outcome[r] = "none" /\ ~agentFinished[r]
                    /\ posted[r] = "none"
                    /\ Answered(r) => resp[r].status = 200

C12_Witness ==
    \E r \in Reqs :
        /\ CommandSwitched(r)
        /\ resp[r].command = "/RAGBOT-HELP"
        /\ handler[r] = "none"
        /\ Answered(r) /\ resp[r].status = 200

C12_WitnessHelp ==
    \E r \in Reqs :
        /\ CommandSwitched(r)
        /\ resp[r].command = "/ragbot-help"
        /\ handler[r] = "HandleHelp"
        /\ posted[r] = "answer"

SourceMessageHandlers ==
    {"HandleAppMention", "HandleDirectMessage", "HandleThreadMessage"}

(* C13: when the service call of a message handler comes back as a failure *)
(* (error return or ErrorResponse value), the handler has added the        *)
(* reaction x, posted the error message in reply to the triggering         *)
(* message, not added white_check_mark, and returned: its goroutine is     *)
(* over and the process is alive.                                          *)
C13_FailureCaught ==
    \A r \in Reqs :
        (handler[r] \in SourceMessageHandlers
            /\ outcome[r] \in {"err", "ErrorResponse"}) =>
            /\ "x" \in reactions[r]
            /\ "white_check_mark" \notin reactions[r]
            /\ posted[r] = "error"
            /\ gpc[r] = "done"
            /\ ~crashed

C13_Witness ==
    \E r \in Reqs :
        /\ handler[r] = "HandleThreadMessage"
        /\ outcome[r] = "ErrorResponse"
        /\ reactions[r] = {"thinking_face", "x"}
        /\ posted[r] = "error"
        /\ Answered(r)

(* C14: whatever a service call gives back, the process is never ended by  *)
(* a handler goroutine, so the server can always accept a later request    *)
(* once the current one is over.                                           *)
C14_NeverCrashes ==
    /\ ~crashed
    /\ (\A r \in Reqs : pc[r] = "idle") => ENABLED (\E r \in Reqs : Receive(r))

C14_Crashed ==
    \E r \in Reqs :
        /\ crashed
        /\ handler[r] = "HandleGetDataSource"
        /\ outcome[r] = "panic"
        /\ resp[r].ensured
        /\ ~ENABLED Next

(* C15: at both places where a request is verified, the verification lets  *)
(* the request through exactly when its timestamp is fresh and its         *)
(* signature header is the HMAC of its raw body: it fails when a byte of   *)
(* the body or of the signature header was changed (mismatch, unparsable   *)
(* or missing header) and when the timestamp is outside the skew window.   *)
C15_VerifyExact ==
    \A r \in Reqs :
        /\ resp[r].route = "command" =>
              (CommandVerifyOk(req[r]) <=> req[r].auth = "valid")
        /\ resp[r].route = "event" =>
              (EventVerifyOk(req[r]) <=> req[r].auth = "valid")

C15_TamperedAccepted ==
    \E r \in Reqs :
        /\ req[r].endpoint = "/slack/commands"
        /\ req[r].auth = "mismatch"
        /\ req[r].body.kind = "empty"
        /\ CommandVerifyOk(req[r])
        /\ resp[r].spawn = "command"
        /\ gpc[r] = "done" /\ posted[r] = "answer"

(* C16: every request to the event endpoint whose body is neither a form   *)
(* nor JSON, the empty body included, is answered 400 and dispatches       *)
(* nothing.                                                                *)
C16_Malformed400 ==
    \A r \in Reqs :
        (/\ OnEvents(r)
         /\ pc[r] # "idle"
         /\ req[r].body.kind \in {"empty", "garbage"}
         /\ ~MediaTypeIsForm(req[r].contentType)) =>
            resp[r].status = 400 /\ NoDispatch(r)

C16_Empty500 ==
    \E r \in Reqs :
        /\ OnEvents(r) /\ Answered(r)
        /\ req[r].body.kind = "empty"
        /\ req[r].contentType = "application/json"
        /\ req[r].auth = "valid"
        /\ resp[r].status = 500

(* C18: every handler run that has entered its service call ends, also     *)
(* when the Bedrock service never answers (nothing is assumed of the       *)
(* service; only a deadline in the handler could end the call).            *)
C18_HandlerTerminates ==
    \A r \in Reqs : (gpc[r] = "agent") ~> (gpc[r] = "done")

C18_Blocked ==
    \E r \in Reqs :
        /\ gpc[r] = "agent"
        /\ handler[r] = "HandleAgentStatus"
        /\ Answered(r)
        /\ ~crashed
        /\ \A o \in Reqs : ~ENABLED Ack(o)
                             /\ ~ENABLED RunEventGoroutine(o)
                             /\ ~ENABLED RunCommandGoroutine(o)

SignedEnvelope(r) ==
    /\ OnEvents(r)
    /\ req[r].auth = "valid"
    /\ req[r].body.kind = "json"
    /\ req[r].body.typ = "event_callback"
    /\ req[r].body.ev.present /\ req[r].body.ev.hasType

NotTakenAsForm(r) ==
    /\ req[r].contentType # FormContentType
    /\ ~Contains(req[r].body.ev.text, CommandEq)

EnvelopeDispatched(r) ==
    /\ resp[r].spawn = "event"
    /\ Answered(r) => resp[r].status = 200
    /\ (Switched(r) /\ req[r].body.ev.type = "app_mention"
            /\ req[r].body.ev.typed) => handler[r] = "HandleAppMention"

C19_TextTaken ==
    \E r \in Reqs :
        /\ SignedEnvelope(r)
        /\ req[r].contentType = "application/json"
        /\ req[r].body.ev.type = "app_mention"
        /\ req[r].body.ev.text = TextCommandEq
        /\ resp[r].route = "command"
        /\ resp[r].status = 400
        /\ NoDispatch(r)

OnCommandEndpoint(q) == Serve([q EXCEPT !.endpoint = "/slack/commands"])

(* C20: a form body with a command key sent to the event endpoint gets     *)
(* what the same request gets on the command endpoint: the same status,    *)
(* the same verification result on the same body bytes, the same command   *)
(* and the same handler.                                                   *)
C20_SameAsCommandEndpoint ==
    \A r \in Reqs :
        (OnEvents(r) /\ req[r].body.kind = "form" /\ req[r].body.command # "") =>
            LET twin == OnCommandEndpoint(req[r])
            IN /\ resp[r].route = "command"
               /\ resp[r].spawn = twin.spawn
               /\ resp[r].ensured = twin.ensured
               /\ resp[r].command = twin.command
               /\ resp[r].status =
                      IF twin.status = 0 /\ Answered(r) THEN 200 ELSE twin.status
               /\ CommandSwitched(r) => handler[r] = CommandTarget(twin.command)
               /\ ~CommandSwitched(r) => handler[r] = "none"

C20_Witness ==
    \E r \in Reqs :
        /\ OnEvents(r)
        /\ req[r].contentType = FormContentType
        /\ req[r].auth = "valid"
        /\ req[r].body.command = "/ragbot-kb-status"
        /\ resp[r].ensured
        /\ handler[r] = "HandleKbStatus"
        /\ Answered(r) /\ resp[r].status = 200

C20_WitnessRejected ==
    \E r \in Reqs :
        /\ OnEvents(r)
        /\ req[r].auth = "mismatch"
        /\ req[r].body.command = "/ragbot-kb-status"
        /\ resp[r].status = 401
        /\ OnCommandEndpoint(req[r]).status = 401

(***************************************************************************)
(* The run of a command handler is over: the handler returned, or the      *)
(* process ended under it.                                                 *)
(***************************************************************************)
CommandRunOver(r) ==
    /\ handler[r] \in CommandHandlers
    /\ gpc[r] = "done" \/ outcome[r] = "panic"

(* C21: when the run of a registered command handler is over it has sent   *)
(* exactly one reply: one POST to the response URL when the command        *)
(* carries one, else one message to the channel of the command; the HTTP   *)
(* response to the command has status 200 and an empty body.               *)
C21_ExactlyOneReply ==
    \A r \in Reqs :
        CommandRunOver(r) =>
            /\ calls[r] = IF CommandResponseURL(req[r]) # ""
                          THEN <<"POST response_url">>
                          ELSE <<"PostMessage channel">>
            /\ pc[r] = "done" => resp[r].status = 200 /\ resp[r].respBody = <<>>

C21_NoReply ==
    \E r \in Reqs :
        /\ CommandRunOver(r)
        /\ resp[r].ensured
        /\ calls[r] = <<>>

(* C22: when HandleThreadMessage goes on to the agent, whatever the casing *)
(* of the "hey ragbot" prefix that its guard accepted, the text it hands   *)
(* on is the text of the message without its first ten characters (the     *)
(* prefix), trimmed of surrounding white space.                            *)
C22_PrefixRemoved ==
    \A r \in Reqs :
        (handler[r] = "HandleThreadMessage" /\ acted[r]) =>
            /\ HasPrefix(ToLower(req[r].body.ev.text), HeyRagbotLower)
            /\ agentInput[r].text =
                   TrimSpace(SubSeq(req[r].body.ev.text,
                                    Len(HeyRagbotLower) + 1,
                                    Len(req[r].body.ev.text)))

C22_PrefixKept ==
    \E r \in Reqs :
        /\ handler[r] = "HandleThreadMessage"
        /\ acted[r]
        /\ resp[r].ensured
        /\ req[r].body.ev.text = TextHeyUpper
        /\ agentInput[r].text = TextHeyUpper
        /\ "SendSlackMessage" \in {calls[r][i] : i \in 1..Len(calls[r])}

(* C23: when HandleAppMention goes on to the agent with a text that holds  *)
(* a mention token <@...>, the text it hands on is what follows the token, *)
(* trimmed; no mention token is part of it.                                *)
HasMentionToken(text) ==
    \E i \in 1..Len(text), j \in 1..Len(text) :
        /\ i + 2 < j
        /\ text[i] = "<" /\ text[i + 1] = "@" /\ text[j] = ">"
        /\ \A k \in (i + 2)..(j - 1) : text[k] # ">"

C23_MentionRemoved ==
    \A r \in Reqs :
        (handler[r] = "HandleAppMention" /\ acted[r]
            /\ HasMentionToken(req[r].body.ev.text)) =>
            ~HasMentionToken(agentInput[r].text)

C23_MentionKept ==
    \E r \in Reqs :
        /\ handler[r] = "HandleAppMention"
        /\ acted[r]
        /\ resp[r].ensured
        /\ req[r].body.ev.text = TextMention
        /\ agentInput[r].text = TextMention
        /\ "InvokeAgent" \in {calls[r][i] : i \in 1..Len(calls[r])}

Called(r, c) == \E i \in 1..Len(calls[r]) : calls[r][i] = c

ReportedHealthy(r) == health[r].Healthy /\ health[r].Issues = {}

(* C24: InvokeAgent is called only when the health check that              *)
(* InvokeBedrockAgent ran reported healthy, with no issue.  When the check *)
(* reported an issue (a status that is not ready or active, or a status    *)
(* call that failed), InvokeBedrockAgent returned an ErrorResponse and     *)
(* InvokeAgent was not called.                                             *)
C24_InvokedOnlyWhenHealthy ==
    \A r \in Reqs :
        (handler[r] \in SourceMessageHandlers /\ agentFinished[r]) =>
            /\ Called(r, "InvokeAgent") => ReportedHealthy(r)
            /\ ~ReportedHealthy(r) =>
                   outcome[r] = "ErrorResponse" /\ ~Called(r, "InvokeAgent")

C24_Witness ==
    \E r \in Reqs :
        /\ handler[r] = "HandleAppMention"
        /\ agentFinished[r]
        /\ health[r] = [Healthy |-> FALSE, Issues |-> {"Knowledge Base"}]
        /\ outcome[r] = "ErrorResponse"
        /\ ~Called(r, "InvokeAgent")

C24_WitnessInvoked ==
    \E r \in Reqs :
        /\ handler[r] = "HandleAppMention"
        /\ agentFinished[r]
        /\ health[r] = [Healthy |-> TRUE, Issues |-> {}]
        /\ outcome[r] = "answer"
        /\ Called(r, "InvokeAgent")

CallCount(r, c) == Cardinality({i \in 1..Len(calls[r]) : calls[r][i] = c})

(* C25: a message handler that processes a message has added              *)
(* thinking_face, and nothing else, while the agent is being called; once  *)
(* the call is back it has added exactly one of x and white_check_mark,    *)
(* after thinking_face and after the call, and then posted exactly one     *)
(* message, as its last call, in reply to the triggering message.          *)
C25_FixedOrder ==
    \A r \in Reqs :
        (handler[r] \in SourceMessageHandlers /\ acted[r]) =>
            /\ calls[r][1] = "AddReaction thinking_face"
            /\ CallCount(r, "AddReaction thinking_face") = 1
            /\ gpc[r] = "agent" => Len(calls[r]) = 1
            /\ agentFinished[r] =>
                  /\ CallCount(r, "AddReaction x")
                        + CallCount(r, "AddReaction white_check_mark") = 1
                  /\ CallCount(r, "SendSlackMessage") = 1
                  /\ calls[r][Len(calls[r])] = "SendSlackMessage"
                  /\ calls[r][Len(calls[r]) - 1] \in
                        {"AddReaction x", "AddReaction white_check_mark"}
                  /\ Len(calls[r]) \in {3, 4}
                  /\ Len(calls[r]) = 4 => calls[r][2] = "InvokeAgent"
                  /\ agentInput[r].timestamp = ToString(req[r].body.ev.ts)

C25_Witness ==
    \E r \in Reqs :
        /\ handler[r] = "HandleDirectMessage"
        /\ calls[r] = <<"AddReaction thinking_face", "InvokeAgent",
                        "AddReaction white_check_mark", "SendSlackMessage">>

C25_WitnessFailure ==
    \E r \in Reqs :
        /\ handler[r] = "HandleDirectMessage"
        /\ calls[r] = <<"AddReaction thinking_face", "AddReaction x",
                        "SendSlackMessage">>

(* C26, for the message handlers whose bodies are in the source: a message *)
(* event with a bot_id that is dispatched to HandleDirectMessage or to     *)
(* HandleThreadMessage makes no call at all: no reaction, no agent         *)
(* invocation, no reply.                                                   *)
C26_SourceHandlersSkipBots ==
    \A r \in Reqs :
        (/\ handler[r] \in {"HandleDirectMessage", "HandleThreadMessage"}
         /\ req[r].body.ev.type = "message"
         /\ req[r].body.ev.bot_id # "") =>
            /\ ~acted[r]
            /\ calls[r] = <<>>
            /\ posted[r] = "none"
            /\ gpc[r] = "done"

C26_SkippedBot ==
    \E r \in Reqs :
        /\ handler[r] = "HandleThreadMessage"
        /\ req[r].body.ev.bot_id # ""
        /\ req[r].body.ev.text = TextHeyLower
        /\ req[r].body.ev.thread_ts # ""
        /\ req[r].body.ev.subtype = ""
        /\ resp[r].ensured
        /\ gpc[r] = "done"
        /\ calls[r] = <<>>

(***************************************************************************)
(* Properties of the Go server under repeated and concurrent deliveries    *)
(* (SpecDeliver).                                                          *)
(***************************************************************************)
SameEvent(r1, r2) ==
    /\ r1 # r2
    /\ pc[r1] # "idle" /\ pc[r2] # "idle"
    /\ req[r1].body.event_id = req[r2].body.event_id

Dispatched(r) == handler[r] \in EventHandlers

WithinWindow(r1, r2) ==
    /\ arrived[r1] - arrived[r2] < DedupWindow
    /\ arrived[r2] - arrived[r1] < DedupWindow

(* C5: two deliveries of the same event identifier within the 30-second    *)
(* window result in exactly one handler dispatch.                          *)
C5_OneDispatchPerWindow ==
    \A r1, r2 \in Reqs :
        (SameEvent(r1, r2) /\ WithinWindow(r1, r2)) =>
            ~(Dispatched(r1) /\ Dispatched(r2))

C5_Twice ==
    \E r1, r2 \in Reqs :
        /\ SameEvent(r1, r2) /\ WithinWindow(r1, r2)
        /\ Dispatched(r1) /\ Dispatched(r2)
        /\ arrived[r1] # arrived[r2]

(* C6: of the concurrent deliveries of one event identifier, at most one   *)
(* is admitted (its goroutine started).                                    *)
C6_AtMostOneAdmitted ==
    \A r1, r2 \in Reqs :
        (SameEvent(r1, r2) /\ arrived[r1] = arrived[r2]) =>
            ~(resp[r1].spawn = "event" /\ resp[r2].spawn = "event")

C6_BothInFlight ==
    \E r1, r2 \in Reqs :
        /\ SameEvent(r1, r2)
        /\ pc[r1] = "spawned" /\ pc[r2] = "spawned"
        /\ gpc[r1] = "agent" /\ gpc[r2] = "agent"

(* C7: an event whose timestamp is earlier than the process start is never *)
(* dispatched to a handler.                                                *)
C7_NoStaleDispatch ==
    \A r \in Reqs : Dispatched(r) => req[r].body.ev.ts >= ProcessStart

C7_StaleDispatched ==
    \E r \in Reqs :
        /\ Dispatched(r)
        /\ req[r].auth = "valid"
        /\ req[r].body.ev.ts < ProcessStart

(***************************************************************************)
(* The session identifier that reaches the agent (SpecSession).            *)
(***************************************************************************)
Processed(r) == handler[r] \in SourceMessageHandlers /\ acted[r]

InThread(r) == req[r].body.ev.thread_ts # ""

C27_WitnessNoThread ==
    \E r, o \in Reqs :
        /\ Processed(r) /\ Processed(o)
        /\ ~InThread(r) /\ ~InThread(o)
        /\ agentInput[r].sessionID = ToString(ProcessStart)
        /\ agentInput[o].sessionID = ToString(ProcessStart + 1)

(***************************************************************************)
(* Properties of the middleware chain (SpecBolt).                          *)
(***************************************************************************)
(* C8: a platform event that was not delivered before and is not stale is  *)
(* admitted (the chain reaches next()), also when its identifier is the    *)
(* channel+timestamp composite.                                            *)
C8_FirstTimeAdmitted ==
    (boltLast.first /\ boltLast.verdict # "stale") => boltLast.verdict = "next"

C8_Dropped ==
    /\ boltLast.first
    /\ boltLast.verdict = "duplicate"
    /\ boltLast.payload.event_id = ""
    /\ boltLast.payload.type = "message"

BoltIds == {BoltEventId(p) : p \in BoltPayloads} \ {NullId}

(* C17: every identifier in the recent-event set has a pending timer that  *)
(* was set 30 seconds after its insertion, the set never holds an          *)
(* identifier longer than that (up to one step of the clock), and every    *)
(* identifier that is in the set is eventually out of it.                  *)
C17_Evicted ==
    /\ [](\A id \in processedEventIds :
             \E t \in timers :
                 /\ t.id = id
                 /\ t.due <= now + DedupWindow
                 /\ now < t.due + TickStep)
    /\ [](Cardinality(processedEventIds) <= Cardinality(timers))
    /\ \A id \in BoltIds :
          (id \in processedEventIds) ~> (id \notin processedEventIds)

C17_Witness ==
    /\ boltLast.verdict = "next"
    /\ BoltEventId(boltLast.payload) # NullId
    /\ now >= boltLast.at + DedupWindow
    /\ processedEventIds = {}
    /\ timers = {}

(* C29: a delivery that the chain rejects, as stale or as a duplicate,     *)
(* leaves the deduplication set and the pending timers as they were; the   *)
(* timer of an identifier that a duplicate finds in the set is the one of  *)
(* its admission, due 30 seconds after it: it is due no later than 30      *)
(* seconds after the admission of the latest admitted delivery of that     *)
(* identifier, and so before 30 seconds after a later duplicate.           *)
C29_RejectionsFrame ==
    /\ [][(boltCount' = boltCount + 1
             /\ boltLast'.verdict \in {"stale", "duplicate"})
          => (processedEventIds' = processedEventIds /\ timers' = timers)]_vars
    /\ [](\A t \in timers :
             (/\ boltLast.verdict = "duplicate"
              /\ BoltEventId(boltLast.payload) = t.id
              /\ BoltEventId(boltRun.payload) = t.id)
             => t.due = boltRun.at + DedupWindow)

C29_Witness ==
    /\ boltLast.verdict = "duplicate"
    /\ boltLast.at > boltRun.at
    /\ boltCount = 3
    /\ BoltEventId(boltRun.payload) = BoltEventId(boltLast.payload)
    /\ timers = {[id |-> BoltEventId(boltLast.payload),
                  due |-> boltRun.at + DedupWindow]}
    /\ processedEventIds = {BoltEventId(boltLast.payload)}

C29_WitnessStale ==
    /\ boltLast.verdict = "stale"
    /\ boltLast.payload.event_id = "Ev1"
    /\ processedEventIds = {}
    /\ timers = {}

(* C30: the identifier of an admitted delivery is in the deduplication set *)
(* while its handler runs and stays there when the handler has failed, for *)
(* the 30 seconds of the window; a later delivery under that identifier    *)
(* within the window is not admitted, and is rejected as a duplicate when  *)
(* it is not stale.                                                        *)
C30_RecordOutlivesFailure ==
    /\ (boltRun.state \in {"running", "failed"}
          /\ now < boltRun.at + DedupWindow)
       => BoltEventId(boltRun.payload) \in processedEventIds
    /\ (/\ boltRun.state = "failed"
        /\ boltCount > boltRun.n
        /\ BoltEventId(boltLast.payload) = BoltEventId(boltRun.payload)
        /\ boltLast.at < boltRun.at + DedupWindow)
       => /\ boltLast.verdict # "next"
          /\ ~IsStale(boltLast.payload, boltLast.at)
                => boltLast.verdict = "duplicate"

C30_Witness ==
    /\ boltRun.state = "failed"
    /\ boltCount = boltRun.n + 1
    /\ boltLast.payload = boltRun.payload
    /\ boltLast.at > boltRun.at
    /\ boltLast.at < boltRun.at + DedupWindow
    /\ boltLast.verdict = "duplicate"

(***************************************************************************)
(* Properties of MonitorIngestionJob (SpecMonitor).                        *)
(***************************************************************************)
(* C28, as stated: a result is returned only when the terminal status was  *)
(* observed before the deadline passed.                                    *)
C28_AsStated ==
    mon.ret = "result" =>
        /\ mon.jobStatus \in TerminalStatuses
        /\ mon.observedAt < MonitorDeadline(mon.maxWaitMinutes)

(* C28: a result is returned only after a poll that began before the       *)
(* deadline observed COMPLETE, FAILED or STOPPED and no status call gave   *)
(* an error response; when a status call gave an error response, or when   *)
(* the deadline had passed at the head of the loop with no terminal status *)
(* observed, an error is returned; in a result, Success is true exactly    *)
(* when the job status is COMPLETE, the final updated-at timestamp of the  *)
(* knowledge base is after the initial one and the agent status is READY   *)
(* or PREPARED.                                                            *)
C28_ResultAfterTerminal ==
    mon.pc = "returned" =>
        /\ mon.ret \in {"result", "ErrorResponse"}
        /\ mon.ret = "result" =>
              /\ mon.jobComplete
              /\ mon.jobStatus \in TerminalStatuses
              /\ mon.pollStart < MonitorDeadline(mon.maxWaitMinutes)
              /\ ~mon.failed
              /\ mon.Success <=>
                    /\ mon.jobStatus = "COMPLETE"
                    /\ mon.finalKB > mon.initialKB
                    /\ mon.agentStatus \in {"READY", "PREPARED"}
        /\ mon.failed => mon.ret = "ErrorResponse"
        /\ ~mon.jobComplete => mon.ret = "ErrorResponse"
        /\ (mon.ret = "ErrorResponse" /\ ~mon.failed) =>
              /\ ~mon.jobComplete
              /\ mon.clock >= MonitorDeadline(mon.maxWaitMinutes)

C28_Witness ==
    /\ mon.ret = "result"
    /\ mon.Success
    /\ mon.jobStatus = "COMPLETE"
    /\ mon.observedAt > MonitorDeadline(mon.maxWaitMinutes)
    /\ mon.pollStart = PollSleep

C28_WitnessTimeout ==
    /\ mon.ret = "ErrorResponse"
    /\ ~mon.failed
    /\ mon.jobStatus = "IN_PROGRESS"
    /\ mon.maxWaitMinutes = 1

C28_WitnessNoSuccess ==
    /\ mon.ret = "result"
    /\ ~mon.Success
    /\ mon.jobStatus = "COMPLETE"
    /\ mon.agentStatus = "READY"
    /\ mon.finalKB = mon.initialKB

=============================================================================
